---- MODULE Spec2Model ----
(***************************************************************************)
(* Model of the security-audit harness of the Squid DAO vote calculator:   *)
(* the pytest proofs of concept of tests/test_security_audit_pocs.py and   *)
(* the simulated demonstration of poc_demonstration.py.                    *)
(*                                                                         *)
(* The harness reads rates from a deployed contract ("census") and applies *)
(* Python arithmetic to them: unbounded integers (product, floor division, *)
(* abs) and IEEE doubles (true division of integers, product of a double,  *)
(* comparisons with 100 and 0.01).                                         *)
(* Both are modelled by what they compute: integers as sequences of        *)
(* base-1000 limbs, doubles as a 53-bit significand and a binary exponent  *)
(* with round-to-nearest-even.                                             *)
(***************************************************************************)
EXTENDS Integers, Sequences, FiniteSets, TLC

----------------------------------------------------------------------------
(* Python int.  A natural number is the sequence of its base-1000 limbs,   *)
(* least significant first, without a most significant zero limb; zero is  *)
(* the empty sequence.                                                     *)

RECURSIVE N(_)
N(n) == IF n = 0 THEN <<>> ELSE <<n % 1000>> \o N(n \div 1000)

RECURSIVE Norm(_)
Norm(s) ==
  IF s = <<>> THEN <<>>
  ELSE IF s[Len(s)] = 0 THEN Norm(SubSeq(s, 1, Len(s) - 1)) ELSE s

Limb(a, i) == IF i <= Len(a) THEN a[i] ELSE 0

RECURSIVE AddFrom(_, _, _, _)
AddFrom(a, b, i, c) ==
  IF i > Len(a) /\ i > Len(b)
  THEN (IF c = 0 THEN <<>> ELSE <<c>>)
  ELSE LET s == Limb(a, i) + Limb(b, i) + c
       IN  <<s % 1000>> \o AddFrom(a, b, i + 1, s \div 1000)

Add(a, b) == AddFrom(a, b, 1, 0)

RECURSIVE CmpFrom(_, _, _)
CmpFrom(a, b, i) ==
  IF i = 0 THEN 0
  ELSE IF a[i] > b[i] THEN 1
  ELSE IF a[i] < b[i] THEN -1
  ELSE CmpFrom(a, b, i - 1)

\* -1, 0 or 1 as a < b, a = b or a > b
Cmp(a, b) ==
  IF Len(a) > Len(b) THEN 1
  ELSE IF Len(a) < Len(b) THEN -1
  ELSE CmpFrom(a, b, Len(a))

RECURSIVE SubFrom(_, _, _, _)
SubFrom(a, b, i, c) ==
  IF i > Len(a) THEN <<>>
  ELSE LET s == a[i] - Limb(b, i) - c
       IN  IF s < 0 THEN <<s + 1000>> \o SubFrom(a, b, i + 1, 1)
                    ELSE <<s>> \o SubFrom(a, b, i + 1, 0)

\* a - b for a >= b
Sub(a, b) == Norm(SubFrom(a, b, 1, 0))

\* abs(a - b)
AbsDiff(a, b) == IF Cmp(a, b) >= 0 THEN Sub(a, b) ELSE Sub(b, a)

RECURSIVE MulLimbFrom(_, _, _, _)
MulLimbFrom(a, k, i, c) ==
  IF i > Len(a)
  THEN (IF c = 0 THEN <<>> ELSE N(c))
  ELSE LET s == a[i] * k + c
       IN  <<s % 1000>> \o MulLimbFrom(a, k, i + 1, s \div 1000)

\* a * k for a limb-sized k (0 <= k < 1000)
MulLimb(a, k) == IF k = 0 \/ a = <<>> THEN <<>> ELSE MulLimbFrom(a, k, 1, 0)

\* a * 1000^n
ShiftUp(a, n) == IF a = <<>> THEN <<>> ELSE [i \in 1..n |-> 0] \o a

RECURSIVE MulFrom(_, _, _)
MulFrom(a, b, i) ==
  IF i > Len(b) THEN <<>>
  ELSE Add(ShiftUp(MulLimb(a, b[i]), i - 1), MulFrom(a, b, i + 1))

Mul(a, b) == IF a = <<>> \/ b = <<>> THEN <<>> ELSE MulFrom(a, b, 1)

\* the largest d in lo..hi with d * b <= r (lo * b <= r is given)
RECURSIVE Digit(_, _, _, _)
Digit(r, b, lo, hi) ==
  IF lo >= hi THEN lo
  ELSE IF Cmp(MulLimb(b, (lo + hi + 1) \div 2), r) <= 0
       THEN Digit(r, b, (lo + hi + 1) \div 2, hi)
       ELSE Digit(r, b, lo, (lo + hi + 1) \div 2 - 1)

\* the limbs n-1, n and n+1 of r as one number, below 10^9 for r < 1000 * b
Top3(r, n) ==
  IF n = 1 THEN Limb(r, 2) * 1000 + Limb(r, 1)
  ELSE Limb(r, n + 1) * 1000000 + Limb(r, n) * 1000 + Limb(r, n - 1)

\* the two leading limbs of b as one number
Top2(b) ==
  IF Len(b) = 1 THEN b[1] ELSE b[Len(b)] * 1000 + b[Len(b) - 1]

Min(x, y) == IF x < y THEN x ELSE y

\* r // b for r < 1000 * b: bracketed by the leading limbs, then searched
QuotDigit(r, b) ==
  Digit(r, b,
        IF Len(b) = 1 THEN Top3(r, 1) \div b[1]
                      ELSE Top3(r, Len(b)) \div (Top2(b) + 1),
        Min(999, Top3(r, Len(b)) \div Top2(b)))

\* long division from limb i down; the remainder r stays below b
RECURSIVE DivFrom(_, _, _, _, _)
RECURSIVE DivPut(_, _, _, _, _, _)
DivFrom(a, b, i, q, r) ==
  IF i = 0 \/ Cmp(r, b) >= 0 THEN [q |-> Norm(q), r |-> r]
  ELSE DivPut(a, b, i, q, Norm(<<a[i]>> \o r),
              QuotDigit(Norm(<<a[i]>> \o r), b))

DivPut(a, b, i, q, r1, d) ==
  DivFrom(a, b, i - 1, <<d>> \o q, Sub(r1, MulLimb(b, d)))

\* divmod(a, b) for b > 0: [q |-> a // b, r |-> a % b]
DivMod(a, b) == DivFrom(a, b, Len(a), <<>>, <<>>)

FloorDiv(a, b) == DivMod(a, b).q

----------------------------------------------------------------------------
(* Python float (IEEE 754 binary64, round to nearest, ties to even).  A    *)
(* positive double is [m, e] with value m * 2^e and 2^52 <= m < 2^53; zero *)
(* is [m |-> <<>>, e |-> 0].  Only non-negative values occur.  The         *)
(* exponents that occur are far inside the normal range.                   *)

\* (2^30)^j for j in 0..10
Big30 ==
  LET b1 == N(2^30)
      b2 == Mul(b1, b1)
      b4 == Mul(b2, b2)
      b8 == Mul(b4, b4)
  IN  << <<1>>, b1, b2, Mul(b2, b1), b4, Mul(b4, b1), Mul(b4, b2),
         Mul(b4, Mul(b2, b1)), b8, Mul(b8, b1), Mul(b8, b2) >>

\* the powers of two 2^0 .. 2^300
Pow2Tab == [k \in 1..301 |-> Mul(N(2^((k - 1) % 30)), Big30[(k - 1) \div 30 + 1])]

Pow2(k) == Pow2Tab[k + 1]

\* the number of bits of x > 0: the least k with x < 2^k
BitLen(x) ==
  CHOOSE k \in (9 * (Len(x) - 1) + 1)..(10 * Len(x)) :
    /\ Cmp(x, Pow2(k)) < 0
    /\ Cmp(x, Pow2(k - 1)) >= 0

FZero == [m |-> <<>>, e |-> 0]

\* x * 2^k for k > 0, x otherwise
Scale(x, k) == IF k > 0 THEN Mul(x, Pow2(k)) ELSE x

\* the significand m rounded up into 2^53 is 2^52 with the next exponent
RoundM(m, e) ==
  IF m = Pow2(53) THEN [m |-> Pow2(52), e |-> e + 1] ELSE [m |-> m, e |-> e]

\* to nearest, ties to even: up when the remainder is over half the divisor
RoundsUp(q, twice, den) ==
  Cmp(twice, den) > 0 \/ (Cmp(twice, den) = 0 /\ q[1] % 2 = 1)

RoundQ(qr, den, e) ==
  RoundM(IF RoundsUp(qr.q, Add(qr.r, qr.r), den) THEN Add(qr.q, <<1>>)
                                                 ELSE qr.q, e)

RoundD(num, den, e) == RoundQ(DivMod(num, den), den, e)

\* n / d rounded at the exponent e, where 2^52 <= n / (d * 2^e) < 2^53
RoundAt(n, d, e) == RoundD(Scale(n, -e), Scale(d, e), e)

Round1(n, d, e0) ==
  RoundAt(n, d, IF Cmp(Scale(n, -e0), Mul(Scale(d, e0), Pow2(53))) >= 0
                THEN e0 + 1 ELSE e0)

\* the double nearest to the rational n / d (d > 0)
Round(n, d) ==
  IF n = <<>> THEN FZero ELSE Round1(n, d, BitLen(n) - BitLen(d) - 53)

\* a / b on two ints (b > 0): the correctly rounded quotient
TrueDiv(a, b) == Round(a, b)

\* x * k for a double x and an int k that is exact as a double
FMulInt(x, k) == Round(Scale(Mul(x.m, k), x.e), Scale(<<1>>, -x.e))

\* -1, 0 or 1 as x < y, x = y or x > y, for doubles x and y
FCmp(x, y) ==
  Cmp(Scale(x.m, x.e - Min(x.e, y.e)), Scale(y.m, y.e - Min(x.e, y.e)))

\* an int n as a double; exact for the n it is used on
FromInt(n) == Round(n, <<1>>)

\* int(x): the integer part of the double x
FloorF(x) ==
  IF x.e >= 0 THEN Scale(x.m, x.e) ELSE FloorDiv(x.m, Pow2(-x.e))

----------------------------------------------------------------------------
(* Program constants.                                                      *)

\* 10**18, the fixed-point scale of the rates
WAD == ShiftUp(<<1>>, 6)

dust_threshold == 10000000

\* the literal 100 of "inflation_factor > 100", as the double it is compared as
AlarmFactor == FromInt(N(100))

\* the literal 0.01 of "loss_pct > 0.01": the double 0x1.47ae147ae147bp-7
LossAlarmPct == [m |-> <<235, 34, 523, 607, 764, 5>>, e |-> -59]

\* test_amounts of test_poc_dust_protection_bypass
bypass_amounts ==
  << N(dust_threshold - 1), N(dust_threshold), N(dust_threshold + 1),
     N(dust_threshold * 10) >>

\* test_amounts of test_poc_precision_loss_vulnerability:
\* 1, 10**9, 10**15, 10**17, 10**18, 10**19
precision_amounts ==
  << <<1>>, ShiftUp(<<1>>, 3), ShiftUp(<<1>>, 5), ShiftUp(<<100>>, 5), WAD,
     ShiftUp(<<10>>, 6) >>

\* edge_cases of test_poc_edge_case_vulnerabilities:
\* 0, 2**256 - 1, 10**30, 9_999_999, 10_000_000
MaxUint256 ==
  << 935, 639, 129, 913, 7, 584, 457, 39, 564, 640, 665, 984, 269, 853, 907,
     687, 8, 985, 570, 423, 195, 316, 237, 89, 792, 115 >>

edge_cases ==
  << <<>>, MaxUint256, ShiftUp(<<1>>, 10), N(9999999), N(10000000) >>

----------------------------------------------------------------------------
(* The deployed contract.  Its view functions are not part of the sources: *)
(* each maps a quantity to a rate scaled by 10**18 or reverts, and reads   *)
(* nothing but the state of the chain at the fork, which census holds.     *)
(* A pool's state is [unit, kind, at]: it answers unit (its rate for one   *)
(* LP unit) except on the quantities of class at, where it deviates as     *)
(* kind says.                                                              *)

VARIABLES census, workers, pc, loc, out

vars == <<census, workers, pc, loc, out>>

\* 12.6445 * 10**18, the standard rate of the demonstration
StdRate == <<0, 0, 0, 0, 500, 644, 12>>

\* 5_162_271 * 10**18, the inflated rate of the demonstration
InflatedRate == ShiftUp(N(5162271), 6)

Ok(v) == [ok |-> TRUE, v |-> v]
Revert == [ok |-> FALSE, v |-> <<>>]

InClass(q, at) ==
  CASE at = "none"      -> FALSE
    [] at = "zero"      -> q = <<>>
    [] at = "one"       -> q = <<1>>
    [] at = "dust"      -> Cmp(q, N(dust_threshold)) < 0
    [] at = "threshold" -> q = N(dust_threshold)
    [] at = "above"     -> Cmp(q, N(dust_threshold)) > 0 /\ q # WAD
    [] at = "unit"      -> q = WAD
    [] at = "all"       -> TRUE

Deviant(kind, unit) ==
  CASE kind = "revert"   -> Revert
    [] kind = "inflated" -> Ok(InflatedRate)
    [] kind = "x100"     -> Ok(Mul(unit, N(100)))
    [] kind = "x100p1"   -> Ok(Add(Mul(unit, N(100)), <<1>>))
    [] kind = "x101"     -> Ok(Mul(unit, N(101)))
    [] kind = "zero"     -> Ok(<<>>)
    [] kind = "low"      -> Ok(Sub(unit, FloorDiv(unit, N(5000))))
    [] kind = "low1"     -> Ok(Sub(unit, FloorDiv(unit, N(10000))))

lp_equivalent(pool, quantity) ==
  IF InClass(quantity, census[pool].at)
  THEN Deviant(census[pool].kind, census[pool].unit)
  ELSE Ok(census[pool].unit)

squid_lp_equivalent(quantity) == lp_equivalent("squid", quantity)
squill_lp_equivalent(quantity) == lp_equivalent("squill", quantity)

\* the price oracles: census.oracle names the read that reverts, if any
squid_price == IF census.oracle = "squid_price" THEN Revert ELSE Ok(WAD)
eth_price == IF census.oracle = "eth_price" THEN Revert ELSE Ok(WAD)

----------------------------------------------------------------------------
(* The harness.  Every test function is a process: pc is its position (0:  *)
(* not running, -1: left by an exception nothing caught), loc its frame    *)
(* (the local variables bound so far) and out the result lines it has      *)
(* printed, one record per probe.  At most `workers` tests run at a time.  *)

Tests == {"dust", "bypass", "precision", "edge", "comprehensive"}

Units == Tests \cup {"main"}

NoFrame == [x \in {} |-> <<>>]

\* the frame l after the assignments of new
Merge(l, new) ==
  [x \in DOMAIN l \cup DOMAIN new |-> IF x \in DOMAIN new THEN new[x] ELSE l[x]]

Bound(l, name) == name \in DOMAIN l

Running == {t \in Units : pc[t] # 0}

\* VotingPower without the division by 10**18
VotingPowerUnscaled(amount, rate) == Mul(amount, rate)

\* amount * rate // 10**18
VotingPower(amount, rate) == FloorDiv(Mul(amount, rate), WAD)

\* Reverted, had the except branch told the protected range from the rest
RevertedByRange(site, amount) ==
  [site |-> site, q |-> amount,
   verdict |-> IF Cmp(amount, N(dust_threshold)) < 0 THEN "Reverted"
                                                     ELSE "UnexpectedRevert"]

\* the line of an except branch: the probe is reported as reverted
Reverted(site, amount) == [site |-> site, q |-> amount, verdict |-> "Reverted"]

\* a test function is called: a fresh frame
Start(t) ==
  /\ pc[t] = 0
  /\ Cardinality(Running) < workers
  /\ pc' = [pc EXCEPT ![t] = 1]
  /\ loc' = [loc EXCEPT ![t] = NoFrame]
  /\ out' = [out EXCEPT ![t] = <<>>]
  /\ UNCHANGED <<census, workers>>

\* a test function returns, or the exception that left it reaches pytest
Finish(t, last) ==
  /\ pc[t] = last \/ pc[t] = -1
  /\ pc' = [pc EXCEPT ![t] = 0]
  /\ loc' = [loc EXCEPT ![t] = NoFrame]
  /\ out' = [out EXCEPT ![t] = <<>>]
  /\ UNCHANGED <<census, workers>>

\* test t moves to position `to` with the frame and the lines of r
Step(t, to, r) ==
  /\ pc' = [pc EXCEPT ![t] = to]
  /\ loc' = [loc EXCEPT ![t] = r.loc]
  /\ out' = [out EXCEPT ![t] = out[t] \o r.lines]
  /\ UNCHANGED <<census, workers>>

----------------------------------------------------------------------------
(* test_poc_dust_attack_vulnerability                                      *)

\* the two baseline reads, outside any try: [to, loc, lines]
DustBaselineReads(l, squid, squill) ==
  IF ~squid.ok THEN [to |-> -1, loc |-> l, lines |-> <<>>]
  ELSE IF ~squill.ok
       THEN [to |-> -1, loc |-> Merge(l, [squid_lp_standard |-> squid.v]),
             lines |-> <<>>]
  ELSE [to |-> 2,
        loc |-> Merge(l, [squid_lp_standard |-> squid.v,
                          squill_lp_standard |-> squill.v]),
        lines |-> <<>>]

DustBaselineTo(r) == Step("dust", r.to, r)

DustBaseline ==
  /\ pc["dust"] = 1
  /\ DustBaselineTo(DustBaselineReads(loc["dust"], squid_lp_equivalent(WAD),
                                      squill_lp_equivalent(WAD)))

\* Inflated with >= in place of >
InflatedOrEqual(inflation_factor) == FCmp(inflation_factor, AlarmFactor) >= 0

\* inflation_factor > 100
Inflated(inflation_factor) == FCmp(inflation_factor, AlarmFactor) > 0

\* DustSquillCalc, had the dust test gone on to the loss check of the
\* precision loop when the factor does not exceed 100
DustSquillCalcThenLoss(l, rate, base, inflation_factor, voting_power_1_wei) ==
  [loc |-> Merge(l, [squill_lp_equiv_1_wei |-> rate,
                     inflation_factor |-> inflation_factor,
                     voting_power_1_wei |-> voting_power_1_wei,
                     expected_voting_power |-> VotingPower(<<1>>, base)]),
   lines |-> << [site |-> "dust_squill", q |-> <<1>>,
                 verdict |-> IF Inflated(inflation_factor) THEN "DustInflated"
                             ELSE IF VotingPower(<<1>>, base) # <<>>
                                     /\ FCmp(FMulInt(
                                              TrueDiv(
                                                AbsDiff(voting_power_1_wei,
                                                  VotingPower(<<1>>, base)),
                                                VotingPower(<<1>>, base)),
                                              N(100)),
                                            LossAlarmPct) > 0
                                  THEN "PrecisionLoss"
                             ELSE "Normal",
                 rate |-> rate, base |-> base,
                 factor |-> inflation_factor,
                 power |-> voting_power_1_wei] >>]

\* the try block on 1 wei of SQUILL LP, past the division
DustSquillCalc(l, rate, base, inflation_factor, voting_power_1_wei) ==
  [loc |-> Merge(l, [squill_lp_equiv_1_wei |-> rate,
                     inflation_factor |-> inflation_factor,
                     voting_power_1_wei |-> voting_power_1_wei,
                     expected_voting_power |-> VotingPower(<<1>>, base)]),
   lines |-> << [site |-> "dust_squill", q |-> <<1>>,
                 verdict |-> IF Inflated(inflation_factor)
                             THEN "DustInflated" ELSE "Normal",
                 rate |-> rate, base |-> base,
                 factor |-> inflation_factor,
                 power |-> voting_power_1_wei] >>]

\* DustSquillBlock where a baseline of 0 counts as an unbounded inflation
DustSquillBlockZeroInflates(l, probe) ==
  IF ~probe.ok
  THEN [loc |-> l, lines |-> <<Reverted("dust_squill", <<1>>)>>]
  ELSE IF l.squill_lp_standard = <<>>
       THEN [loc |-> Merge(l, [squill_lp_equiv_1_wei |-> probe.v]),
             lines |-> << [site |-> "dust_squill", q |-> <<1>>,
                           verdict |-> "DustInflated",
                           rate |-> probe.v, base |-> <<>>,
                           factor |-> TrueDiv(probe.v, <<1>>),
                           power |-> VotingPower(<<1>>, probe.v)] >>]
  ELSE DustSquillCalc(l, probe.v, l.squill_lp_standard,
                      TrueDiv(probe.v, l.squill_lp_standard),
                      VotingPower(<<1>>, probe.v))

\* the try block on 1 wei of SQUILL LP: the frame and the line it leaves
DustSquillBlock(l, probe) ==
  IF ~probe.ok
  THEN [loc |-> l, lines |-> <<Reverted("dust_squill", <<1>>)>>]
  ELSE IF l.squill_lp_standard = <<>>      \* ZeroDivisionError
       THEN [loc |-> Merge(l, [squill_lp_equiv_1_wei |-> probe.v]),
             lines |-> <<Reverted("dust_squill", <<1>>)>>]
  ELSE DustSquillCalc(l, probe.v, l.squill_lp_standard,
                      TrueDiv(probe.v, l.squill_lp_standard),
                      VotingPower(<<1>>, probe.v))

DustSquill ==
  /\ pc["dust"] = 2
  /\ Step("dust", 3, DustSquillBlock(loc["dust"], squill_lp_equivalent(<<1>>)))

\* the try block on 1 wei of SQUID LP, for comparison: nothing is classified
DustSquidBlock(l, probe) ==
  IF ~probe.ok
  THEN [loc |-> l, lines |-> <<Reverted("dust_squid", <<1>>)>>]
  ELSE IF l.squid_lp_standard = <<>>       \* ZeroDivisionError
       THEN [loc |-> Merge(l, [squid_lp_equiv_1_wei |-> probe.v]),
             lines |-> <<Reverted("dust_squid", <<1>>)>>]
  ELSE [loc |-> Merge(l, [squid_lp_equiv_1_wei |-> probe.v,
                          squid_inflation |->
                            TrueDiv(probe.v, l.squid_lp_standard),
                          squid_voting_power |-> VotingPower(<<1>>, probe.v)]),
        lines |-> << [site |-> "dust_squid", q |-> <<1>>,
                      verdict |-> "Executed", rate |-> probe.v,
                      base |-> l.squid_lp_standard] >>]

DustSquid ==
  /\ pc["dust"] = 3
  /\ Step("dust", 4, DustSquidBlock(loc["dust"], squid_lp_equivalent(<<1>>)))

DustTest == DustBaseline \/ DustSquill \/ DustSquid \/ Finish("dust", 4)

----------------------------------------------------------------------------
(* test_poc_dust_protection_bypass: one iteration of its loop              *)

\* BelowDust with <= in place of <
BelowOrAtDust(amount) == Cmp(amount, N(dust_threshold)) <= 0

\* amount < dust_threshold
BelowDust(amount) == Cmp(amount, N(dust_threshold)) < 0

BypassBlock(l, amount, squid, squill) ==
  IF ~squid.ok
  THEN [loc |-> Merge(l, [amount |-> amount]),
        lines |-> <<Reverted("bypass", amount)>>]
  ELSE IF ~squill.ok
       THEN [loc |-> Merge(l, [amount |-> amount, squid_lp_equiv |-> squid.v]),
             lines |-> <<Reverted("bypass", amount)>>]
  ELSE [loc |-> Merge(l, [amount |-> amount,
                          squid_lp_equiv |-> squid.v,
                          squill_lp_equiv |-> squill.v,
                          squid_voting_power |-> VotingPower(amount, squid.v),
                          squill_voting_power |-> VotingPower(amount, squill.v)]),
        lines |-> << [site |-> "bypass", q |-> amount,
                      verdict |-> IF BelowDust(amount) THEN "BelowDust"
                                                       ELSE "AboveDust",
                      squid_rate |-> squid.v, rate |-> squill.v,
                      squid_power |-> VotingPower(amount, squid.v),
                      power |-> VotingPower(amount, squill.v)] >>]

\* BypassAt reading the contract at the amount of the iteration before
BypassAtStale(amount) ==
  Step("bypass", pc["bypass"] + 1,
       BypassBlock(loc["bypass"], amount,
                   squid_lp_equivalent(IF Bound(loc["bypass"], "amount")
                                       THEN loc["bypass"].amount ELSE amount),
                   squill_lp_equivalent(IF Bound(loc["bypass"], "amount")
                                        THEN loc["bypass"].amount ELSE amount)))

BypassAt(amount) ==
  Step("bypass", pc["bypass"] + 1,
       BypassBlock(loc["bypass"], amount, squid_lp_equivalent(amount),
                   squill_lp_equivalent(amount)))

BypassIter ==
  /\ pc["bypass"] \in DOMAIN bypass_amounts
  /\ BypassAt(bypass_amounts[pc["bypass"]])

BypassTest == BypassIter \/ Finish("bypass", Len(bypass_amounts) + 1)

----------------------------------------------------------------------------
(* test_poc_precision_loss_vulnerability: one iteration of its loop        *)

\* abs(voting_power - expected) if expected > 0 else 0
Loss(voting_power, expected) ==
  IF expected # <<>> THEN AbsDiff(voting_power, expected) ELSE <<>>

\* (loss / expected * 100) if expected > 0 else 0
LossPct(loss, expected) ==
  IF expected # <<>> THEN FMulInt(TrueDiv(loss, expected), N(100)) ELSE FZero

\* LossAlarm with >= in place of >
LossAlarmOrEqual(loss_pct) == FCmp(loss_pct, LossAlarmPct) >= 0

\* loss_pct > 0.01
LossAlarm(loss_pct) == FCmp(loss_pct, LossAlarmPct) > 0

\* the try block past its last read and its loss percentages
PrecisionVerdict(l, amount, r, squid_loss_pct, squill_loss_pct) ==
  [loc |-> Merge(l, r @@ [amount |-> amount,
                          squid_loss_pct |-> squid_loss_pct,
                          squill_loss_pct |-> squill_loss_pct]),
   lines |-> << [site |-> "precision", q |-> amount,
                 verdict |-> IF LossAlarm(squid_loss_pct)
                                \/ LossAlarm(squill_loss_pct)
                             THEN "PrecisionLoss" ELSE "Normal",
                 squid_rate |-> r.squid_equiv, squid_base |-> r.squid_equiv_1,
                 rate |-> r.squill_equiv, base |-> r.squill_equiv_1,
                 squid_power |-> r.squid_voting_power,
                 power |-> r.squill_voting_power,
                 expected_squid |-> r.expected_squid,
                 expected |-> r.expected_squill,
                 squid_loss_pct |-> squid_loss_pct,
                 loss_pct |-> squill_loss_pct] >>]

PrecisionLosses(l, amount, r) ==
  PrecisionVerdict(l, amount, r,
                   LossPct(r.squid_loss, r.expected_squid),
                   LossPct(r.squill_loss, r.expected_squill))

\* the try block past its last read, with the powers p and expectations x
PrecisionCalc(l, amount, p, x) ==
  PrecisionLosses(l, amount,
                  p @@ x @@ [squid_loss |-> Loss(p.squid_voting_power,
                                                 x.expected_squid),
                             squill_loss |-> Loss(p.squill_voting_power,
                                                  x.expected_squill)])

PrecisionPowers(amount, squid, squill) ==
  [squid_equiv |-> squid.v, squill_equiv |-> squill.v,
   squid_voting_power |-> VotingPower(amount, squid.v),
   squill_voting_power |-> VotingPower(amount, squill.v)]

\* PrecisionExpected taking both expectations from the SQUID baseline
PrecisionExpectedOnePool(amount, squid_1, squill_1) ==
  [squid_equiv_1 |-> squid_1.v, squill_equiv_1 |-> squill_1.v,
   expected_squid |-> VotingPower(amount, squid_1.v),
   expected_squill |-> VotingPower(amount, squid_1.v)]

PrecisionExpected(amount, squid_1, squill_1) ==
  [squid_equiv_1 |-> squid_1.v, squill_equiv_1 |-> squill_1.v,
   expected_squid |-> VotingPower(amount, squid_1.v),
   expected_squill |-> VotingPower(amount, squill_1.v)]

PrecisionBlock(l, amount, squid, squill, squid_1, squill_1) ==
  IF ~squid.ok
  THEN [loc |-> Merge(l, [amount |-> amount]),
        lines |-> <<Reverted("precision", amount)>>]
  ELSE IF ~squill.ok
       THEN [loc |-> Merge(l, [amount |-> amount, squid_equiv |-> squid.v]),
             lines |-> <<Reverted("precision", amount)>>]
  ELSE IF ~squid_1.ok
       THEN [loc |-> Merge(l, [amount |-> amount]
                                @@ PrecisionPowers(amount, squid, squill)),
             lines |-> <<Reverted("precision", amount)>>]
  ELSE IF ~squill_1.ok
       THEN [loc |-> Merge(l, [amount |-> amount, squid_equiv_1 |-> squid_1.v]
                                @@ PrecisionPowers(amount, squid, squill)),
             lines |-> <<Reverted("precision", amount)>>]
  ELSE PrecisionCalc(l, amount, PrecisionPowers(amount, squid, squill),
                     PrecisionExpected(amount, squid_1, squill_1))

\* PrecisionAt without the try around the reads: a revert leaves the test
PrecisionAtNoTry(amount) ==
  Step("precision",
       IF squid_lp_equivalent(amount).ok /\ squill_lp_equivalent(amount).ok
       THEN pc["precision"] + 1 ELSE -1,
       PrecisionBlock(loc["precision"], amount,
                      squid_lp_equivalent(amount), squill_lp_equivalent(amount),
                      squid_lp_equivalent(WAD), squill_lp_equivalent(WAD)))

PrecisionAt(amount) ==
  Step("precision", pc["precision"] + 1,
       PrecisionBlock(loc["precision"], amount,
                      squid_lp_equivalent(amount), squill_lp_equivalent(amount),
                      squid_lp_equivalent(WAD), squill_lp_equivalent(WAD)))

PrecisionIter ==
  /\ pc["precision"] \in DOMAIN precision_amounts
  /\ PrecisionAt(precision_amounts[pc["precision"]])

PrecisionTest == PrecisionIter \/ Finish("precision", Len(precision_amounts) + 1)

----------------------------------------------------------------------------
(* test_poc_edge_case_vulnerabilities: one iteration of its loop, two try  *)
(* blocks                                                                  *)

\* EdgeLine, had the zero quantity been answered before the call
EdgeLineZeroFirst(site, amount, r) ==
  IF amount = <<>> \/ r.ok
  THEN [site |-> site, q |-> amount, verdict |-> "Executed", rate |-> r.v]
  ELSE Reverted(site, amount)

\* the line of one try block
EdgeLine(site, amount, r) ==
  IF r.ok THEN [site |-> site, q |-> amount, verdict |-> "Executed",
                rate |-> r.v]
          ELSE Reverted(site, amount)

EdgeBlock(l, amount, squid, squill) ==
  [loc |-> Merge(l, [amount |-> amount]
                      @@ (IF squid.ok THEN [squid_equiv |-> squid.v]
                                      ELSE NoFrame)
                      @@ (IF squill.ok THEN [squill_equiv |-> squill.v]
                                       ELSE NoFrame)),
   lines |-> << EdgeLine("edge_squid", amount, squid),
                EdgeLine("edge_squill", amount, squill) >>]

EdgeAt(amount) ==
  Step("edge", pc["edge"] + 1,
       EdgeBlock(loc["edge"], amount, squid_lp_equivalent(amount),
                 squill_lp_equivalent(amount)))

EdgeIter ==
  /\ pc["edge"] \in DOMAIN edge_cases
  /\ EdgeAt(edge_cases[pc["edge"]])

EdgeTest == EdgeIter \/ Finish("edge", Len(edge_cases) + 1)

----------------------------------------------------------------------------
(* test_poc_comprehensive_attack_simulation: the dust phase, the oracle    *)
(* phase, then the threat level and the summary                            *)

\* the except branch of the dust phase
CompBlocked(l, bound) ==
  [loc |-> Merge(l, bound @@ [dust_amount |-> <<1>>, attack_viable |-> FALSE]),
   lines |-> << [site |-> "comp_dust", q |-> <<1>>, verdict |-> "Blocked"] >>]

\* voting_power > 1000
Significant(voting_power) == Cmp(voting_power, N(1000)) > 0

\* the dust phase past the division
CompDustCalc(l, rate, base, inflation_factor, voting_power) ==
  [loc |-> Merge(l, [dust_amount |-> <<1>>,
                     squill_rate_dust |-> rate,
                     squill_rate_normal |-> base,
                     inflation_factor |-> inflation_factor,
                     voting_power |-> voting_power,
                     attack_viable |-> Significant(voting_power)]),
   lines |-> << [site |-> "comp_dust", q |-> <<1>>,
                 verdict |-> IF Significant(voting_power) THEN "Viable"
                                                          ELSE "NotViable",
                 rate |-> rate, base |-> base,
                 factor |-> inflation_factor,
                 power |-> voting_power] >>]

\* the try block of the dust phase
CompDustBlock(l, dust, normal) ==
  IF ~dust.ok THEN CompBlocked(l, NoFrame)
  ELSE IF ~normal.ok THEN CompBlocked(l, [squill_rate_dust |-> dust.v])
  ELSE IF normal.v = <<>>                  \* ZeroDivisionError
       THEN CompBlocked(l, [squill_rate_dust |-> dust.v,
                            squill_rate_normal |-> normal.v])
  ELSE CompDustCalc(l, dust.v, normal.v, TrueDiv(dust.v, normal.v),
                    VotingPower(<<1>>, dust.v))

CompDust ==
  /\ pc["comprehensive"] = 1
  /\ Step("comprehensive", 2,
          CompDustBlock(loc["comprehensive"], squill_lp_equivalent(<<1>>),
                        squill_lp_equivalent(WAD)))

\* the try block of the oracle phase
CompOracleBlock(l, squid, eth) ==
  [loc |-> Merge(l, (IF squid.ok THEN [current_squid_price |-> squid.v]
                                 ELSE NoFrame)
                      @@ (IF squid.ok /\ eth.ok
                          THEN [current_eth_price |-> eth.v] ELSE NoFrame)
                      @@ [oracle_vulnerable |-> squid.ok /\ eth.ok]),
   lines |-> << [site |-> "comp_oracle", q |-> <<>>,
                 verdict |-> IF squid.ok /\ eth.ok THEN "Vulnerable"
                                                   ELSE "Failed"] >>]

CompOracle ==
  /\ pc["comprehensive"] = 2
  /\ Step("comprehensive", 3,
          CompOracleBlock(loc["comprehensive"], squid_price, eth_price))

\* threat_level with "and" and "or" exchanged
threat_level_swapped(attack_viable, oracle_vulnerable) ==
  IF attack_viable \/ oracle_vulnerable THEN "CRITICAL"
  ELSE IF attack_viable /\ oracle_vulnerable THEN "HIGH"
  ELSE "LOW"

threat_level(attack_viable, oracle_vulnerable) ==
  IF attack_viable /\ oracle_vulnerable THEN "CRITICAL"
  ELSE IF attack_viable \/ oracle_vulnerable THEN "HIGH"
  ELSE "LOW"

\* the summary: voting_power is formatted only if attack_viable
CompSummaryLine(l) ==
  [site |-> "comp_summary", q |-> <<1>>,
   verdict |-> threat_level(l.attack_viable, l.oracle_vulnerable),
   attack_viable |-> l.attack_viable,
   oracle_vulnerable |-> l.oracle_vulnerable]
    @@ (IF l.attack_viable THEN [power |-> l.voting_power] ELSE NoFrame)

\* phase 3 and the summary; reading an unbound voting_power is a NameError
CompSummaryBlock(l) ==
  IF l.attack_viable /\ ~Bound(l, "voting_power")
  THEN [to |-> -1, loc |-> l, lines |-> <<>>]
  ELSE [to |-> 4,
        loc |-> Merge(l, [threat_level |->
                            threat_level(l.attack_viable, l.oracle_vulnerable)]),
        lines |-> <<CompSummaryLine(l)>>]

CompSummaryTo(r) == Step("comprehensive", r.to, r)

CompSummary ==
  /\ pc["comprehensive"] = 3
  /\ CompSummaryTo(CompSummaryBlock(loc["comprehensive"]))

ComprehensiveTest ==
  CompDust \/ CompOracle \/ CompSummary \/ Finish("comprehensive", 4)

----------------------------------------------------------------------------
(* poc_demonstration.py: the simulated demonstration.  It reads no         *)
(* contract; main calls the four demonstrations in turn and aggregates.    *)

dust_amounts == <<N(1), N(100), N(1000), N(1000000), N(5000000), N(9999999)>>

above_threshold == <<N(10000000), N(10000001), WAD>>

\* inflated_rate of demonstrate_dust_attack_poc
inflated_rate == 5162271

\* the row demonstrate_dust_attack_poc prints for a dust amount
DustRow(amount) ==
  IF amount = N(1)
  THEN [site |-> "demo_dust", q |-> amount, verdict |-> "VULNERABLE",
        power |-> Mul(amount, N(inflated_rate))]
  ELSE [site |-> "demo_dust", q |-> amount, verdict |-> "PROTECTED"]

demonstrate_dust_attack_poc ==
  [rows |-> [i \in DOMAIN dust_amounts |-> DustRow(dust_amounts[i])]
            \o [i \in DOMAIN above_threshold |->
                  [site |-> "demo_dust", q |-> above_threshold[i],
                   verdict |-> "RATE"]],
   result |-> \E i \in DOMAIN dust_amounts : dust_amounts[i] = N(1)]

\* quantity, description, expected of demonstrate_lp_equivalent_edge_cases:
\* 0, 10**6, 10**18, 10**24, 10**27
demo_edge_cases ==
  << <<>>, ShiftUp(<<1>>, 2), WAD, ShiftUp(<<1>>, 8), ShiftUp(<<1>>, 9) >>

\* EdgeCaseResult with the dust branch ahead of the zero branch
EdgeCaseResultDustFirst(quantity) ==
  IF Cmp(quantity, N(10000000)) < 0 THEN "Dust protected"
  ELSE IF quantity = <<>> THEN "Returns 0"
  ELSE IF Cmp(quantity, ShiftUp(<<1>>, 8)) >= 0 THEN "No overflow"
  ELSE "Normal calc"

\* the result column of the edge-case table
EdgeCaseResult(quantity) ==
  IF quantity = <<>> THEN "Returns 0"
  ELSE IF Cmp(quantity, N(10000000)) < 0 THEN "Dust protected"
  ELSE IF Cmp(quantity, ShiftUp(<<1>>, 8)) >= 0 THEN "No overflow"
  ELSE "Normal calc"

demonstrate_lp_equivalent_edge_cases ==
  [rows |-> [i \in DOMAIN demo_edge_cases |->
               [site |-> "demo_edge", q |-> demo_edge_cases[i],
                verdict |-> EdgeCaseResult(demo_edge_cases[i])]],
   result |-> TRUE]

\* the demonstration main calls at position i, and the name of its result
PocAt(i) ==
  CASE i = 1 -> demonstrate_dust_attack_poc
    [] i = 2 -> [rows |-> <<>>, result |-> TRUE]
    [] i = 3 -> demonstrate_lp_equivalent_edge_cases
    [] i = 4 -> [rows |-> <<>>, result |-> TRUE]

PocName(i) ==
  CASE i = 1 -> "vulnerability_found"
    [] i = 2 -> "balance_accurate"
    [] i = 3 -> "edge_cases_pass"
    [] i = 4 -> "census_pass"

\* Severity, had every demonstration that returns True been CRITICAL
SeverityOfAnyResult(i, result) == IF result THEN "CRITICAL" ELSE "PASS"

\* the severity main records: "CRITICAL" if vulnerability_found else "PASS"
Severity(i, result) == IF i = 1 /\ result THEN "CRITICAL" ELSE "PASS"

MainCall(l, i, r) ==
  [loc |-> [x \in DOMAIN l \cup {PocName(i), "poc_results"} |->
              IF x = "poc_results"
              THEN Append(IF Bound(l, "poc_results") THEN l.poc_results ELSE <<>>,
                          [executed |-> r.result,
                           severity |-> Severity(i, r.result)])
              ELSE IF x = PocName(i) THEN r.result ELSE l[x]],
   lines |-> r.rows]

\* main up to the summary: one demonstration per step, its tuple appended
MainPoc ==
  /\ pc["main"] \in 1..4
  /\ Step("main", pc["main"] + 1,
          MainCall(loc["main"], pc["main"], PocAt(pc["main"])))

critical_found(poc_results) ==
  \E i \in DOMAIN poc_results : poc_results[i].severity = "CRITICAL"

\* len([r for r in poc_results if r[2] == 'PASS'])
Passed(poc_results) ==
  Cardinality({i \in DOMAIN poc_results : poc_results[i].severity = "PASS"})

\* the summary loop and the return value of main
MainSummary ==
  /\ pc["main"] = 5
  /\ Step("main", 6,
          [loc |-> Merge(loc["main"],
                         [critical_found |->
                            critical_found(loc["main"].poc_results),
                          passed |-> Passed(loc["main"].poc_results),
                          exit |-> IF ~critical_found(loc["main"].poc_results)
                                   THEN 0 ELSE 1]),
           lines |-> <<>>])

Main == MainPoc \/ MainSummary \/ Finish("main", 6)

----------------------------------------------------------------------------
(* The states of the chain the model is checked on, and the runs.          *)

Kinds == {"revert", "inflated", "x100", "x100p1", "x101", "zero", "low", "low1"}

Classes == {"zero", "one", "dust", "threshold", "above", "unit", "all"}

Flat(unit) == [unit |-> unit, kind |-> "revert", at |-> "none"]

UnitRates == {StdRate, WAD, <<>>}

SquillStates ==
  {Flat(u) : u \in UnitRates}
    \cup [unit : UnitRates, kind : Kinds, at : Classes]

SquidStates ==
  {Flat(StdRate)}
    \cup [unit : {StdRate}, kind : {"revert"}, at : {"dust", "above", "unit"}]
    \cup [unit : {StdRate}, kind : {"low"}, at : {"dust"}]

\* at most this many tests at a time in the concurrent runs
MaxWorkers == 2

Idle ==
  /\ pc = [t \in Units |-> 0]
  /\ loc = [t \in Units |-> NoFrame]
  /\ out = [t \in Units |-> <<>>]

\* pytest runs the tests one at a time, in any order
\* the states of the chain on which a price oracle fails
OracleFailures == {"squid_price", "eth_price"}

FailingOracleSquill ==
  {Flat(StdRate), [unit |-> StdRate, kind |-> "inflated", at |-> "one"],
   [unit |-> StdRate, kind |-> "revert", at |-> "one"]}

Init ==
  /\ census \in [squid : SquidStates, squill : SquillStates, oracle : {"ok"}]
                   \cup [squid : {Flat(StdRate)}, squill : FailingOracleSquill,
                         oracle : OracleFailures]
  /\ workers = 1
  /\ Idle

Next ==
  \/ \E t \in Units : Start(t)
  \/ DustTest
  \/ BypassTest
  \/ PrecisionTest
  \/ EdgeTest
  \/ ComprehensiveTest
  \/ Main

Spec == Init /\ [][Next]_vars

ParSquillStates ==
  {Flat(StdRate)}
    \cup [unit : {StdRate}, kind : {"revert"}, at : {"dust"}]
    \cup [unit : {StdRate}, kind : {"inflated"}, at : {"one", "dust"}]

ParSquidStates == {Flat(StdRate)}

\* the tests spread over concurrent workers
InitPar ==
  /\ census \in [squid : ParSquidStates, squill : ParSquillStates,
                   oracle : {"ok"}]
  /\ workers = MaxWorkers
  /\ Idle

SpecPar == InitPar /\ [][Next]_vars

----------------------------------------------------------------------------
(* What the properties speak about: the lines printed so far, the reads a  *)
(* line rests on, and the line a probe gives when it is made alone.        *)

AllLines == UNION {{out[t][i] : i \in DOMAIN out[t]} : t \in Units}

LinesAt(site) == {ln \in AllLines : ln.site = site}

\* the contract reads behind a line
Reads(ln) ==
  CASE ln.site = "dust_squill" -> {squill_lp_equivalent(<<1>>)}
    [] ln.site = "dust_squid"  -> {squid_lp_equivalent(<<1>>)}
    [] ln.site = "bypass"      -> {squid_lp_equivalent(ln.q),
                                   squill_lp_equivalent(ln.q)}
    [] ln.site = "precision"   -> {squid_lp_equivalent(ln.q),
                                   squill_lp_equivalent(ln.q),
                                   squid_lp_equivalent(WAD),
                                   squill_lp_equivalent(WAD)}
    [] ln.site = "edge_squid"  -> {squid_lp_equivalent(ln.q)}
    [] ln.site = "edge_squill" -> {squill_lp_equivalent(ln.q)}
    [] OTHER                   -> {}

ProbeReverted(ln) == \E r \in Reads(ln) : ~r.ok

AtOrAbove(q) == Cmp(q, N(dust_threshold)) >= 0

\* the SQUILL rate of one LP unit, the baseline of the dust test
Baseline == squill_lp_equivalent(WAD)

\* the line's SQUILL rate over the baseline does not exceed the alarm factor
WithinAlarm(ln) ==
  /\ "rate" \in DOMAIN ln
  /\ Baseline.ok
  /\ Baseline.v # <<>>
  /\ FCmp(TrueDiv(ln.rate, Baseline.v), AlarmFactor) <= 0

\* the frame of the dust test after its baseline reads
DustFrame ==
  DustBaselineReads(NoFrame, squid_lp_equivalent(WAD),
                    squill_lp_equivalent(WAD)).loc

\* the line the probe behind ln gives from a fresh frame, nothing else run
Alone(ln) ==
  CASE ln.site = "dust_squill" ->
         DustSquillBlock(DustFrame, squill_lp_equivalent(<<1>>)).lines[1]
    [] ln.site = "dust_squid" ->
         DustSquidBlock(DustFrame, squid_lp_equivalent(<<1>>)).lines[1]
    [] ln.site = "bypass" ->
         BypassBlock(NoFrame, ln.q, squid_lp_equivalent(ln.q),
                     squill_lp_equivalent(ln.q)).lines[1]
    [] ln.site = "precision" ->
         PrecisionBlock(NoFrame, ln.q, squid_lp_equivalent(ln.q),
                        squill_lp_equivalent(ln.q), squid_lp_equivalent(WAD),
                        squill_lp_equivalent(WAD)).lines[1]
    [] ln.site = "edge_squid" ->
         EdgeBlock(NoFrame, ln.q, squid_lp_equivalent(ln.q),
                   squill_lp_equivalent(ln.q)).lines[1]
    [] ln.site = "edge_squill" ->
         EdgeBlock(NoFrame, ln.q, squid_lp_equivalent(ln.q),
                   squill_lp_equivalent(ln.q)).lines[2]
    [] OTHER -> ln

\* the sites that print the SQUILL rate they read
SquillSites == {"dust_squill", "bypass", "precision", "edge_squill"}

----------------------------------------------------------------------------
(* C1, as stated: every reverted probe of a quantity at or above           *)
(* dust_threshold, 10,000,001 among them, is reported with the verdict     *)
(* UnexpectedRevert and not Reverted.                                      *)
C1_UnexpectedRevertAboveThreshold ==
  \A ln \in AllLines :
    ProbeReverted(ln) /\ AtOrAbove(ln.q) => ln.verdict = "UnexpectedRevert"

(* C1, amended: every reverted probe of a quantity at or above             *)
(* dust_threshold, 10,000,001 among them, is reported with the verdict     *)
(* Reverted, the same as below the threshold; no line carries the verdict  *)
(* UnexpectedRevert.                                                       *)
C1_RevertedAboveThreshold ==
  /\ \A ln \in AllLines :
       ProbeReverted(ln) /\ AtOrAbove(ln.q) => ln.verdict = "Reverted"
  /\ \A ln \in AllLines : ln.verdict # "UnexpectedRevert"

C1_Witness ==
  \E ln \in LinesAt("bypass") :
    ln.q = N(dust_threshold + 1) /\ ProbeReverted(ln) /\ ln.verdict = "Reverted"

(* C2: a reverted probe of a quantity below dust_threshold (0 and          *)
(* 9,999,999 included) is reported as Reverted, whatever the baseline; the *)
(* line carries no rate, factor or voting power, so the revert is decided  *)
(* before the zero quantity and before any arithmetic.                     *)
C2_RevertedBelowThreshold ==
  \A ln \in AllLines :
    ProbeReverted(ln) /\ BelowDust(ln.q)
      => ln.verdict = "Reverted" /\ DOMAIN ln = {"site", "q", "verdict"}

C2_Witness ==
  /\ \E ln \in LinesAt("edge_squill") : ln.q = <<>> /\ ln.verdict = "Reverted"
  /\ \E ln \in LinesAt("edge_squill") :
       ln.q = N(9999999) /\ ln.verdict = "Reverted"

(* C3: the zero quantity gets the result of the zero case ("Returns 0"),   *)
(* not that of a dust or normal quantity, and for every rate read at       *)
(* quantity 0 the voting power 0 * rate // 10**18 is exactly 0.            *)
C3_ZeroQuantity ==
  /\ \A ln \in LinesAt("demo_edge") : ln.q = <<>> => ln.verdict = "Returns 0"
  /\ \A ln \in AllLines :
       ln.q = <<>> /\ "rate" \in DOMAIN ln => VotingPower(ln.q, ln.rate) = <<>>

C3_Witness ==
  \E ln \in LinesAt("demo_edge") : ln.q = <<>> /\ ln.verdict = "Returns 0"

(* C4: no probe of a quantity at or above dust_threshold is classified as  *)
(* dust or as dust-inflated; a probe at or above the threshold that did    *)
(* not revert and whose factor is at most 100 is classified above the      *)
(* threshold, 10,000,000 itself included.                                  *)
C4_NotDustAtOrAboveThreshold ==
  \A ln \in AllLines :
    AtOrAbove(ln.q)
      => /\ ln.verdict \notin {"DustInflated", "VULNERABLE", "BelowDust",
                               "Dust protected"}
         /\ ln.site = "bypass" /\ ~ProbeReverted(ln) /\ WithinAlarm(ln)
              => ln.verdict = "AboveDust"

C4_Witness ==
  \E ln \in LinesAt("bypass") :
    /\ ln.q = N(dust_threshold)
    /\ ~ProbeReverted(ln)
    /\ WithinAlarm(ln)
    /\ ln.verdict = "AboveDust"

(* C5: a probe that did not revert and whose rate equals its baseline is   *)
(* never an anomaly: the dust test reports Normal with inflation factor 1, *)
(* the precision loop reports Normal with loss 0 at each of its quantities *)
(* (below and above the threshold, 10**18 included), and the bypass loop   *)
(* reports the plain classification of the quantity, 10,000,000 included.  *)
C5_EqualRatesNormal ==
  /\ \A ln \in LinesAt("dust_squill") :
       ~ProbeReverted(ln) /\ "rate" \in DOMAIN ln /\ ln.rate = ln.base
         => /\ ln.verdict = "Normal"
            /\ FCmp(ln.factor, FromInt(<<1>>)) = 0
  /\ \A ln \in LinesAt("precision") :
       /\ ~ProbeReverted(ln)
       /\ ln.rate = ln.base
       /\ ln.squid_rate = ln.squid_base
       => /\ ln.verdict = "Normal"
          /\ ln.loss_pct = FZero
          /\ ln.squid_loss_pct = FZero
          /\ ln.base # <<>> => FCmp(TrueDiv(ln.rate, ln.base), FromInt(<<1>>)) = 0
  /\ \A ln \in LinesAt("bypass") :
       ~ProbeReverted(ln) /\ Baseline.ok /\ ln.rate = Baseline.v
         => ln.verdict = (IF BelowDust(ln.q) THEN "BelowDust" ELSE "AboveDust")

C5_Witness ==
  \E ln \in LinesAt("precision") :
    /\ ln.q = WAD
    /\ ~ProbeReverted(ln)
    /\ ln.rate = ln.base
    /\ ln.base # <<>>
    /\ ln.base # ln.squid_base
    /\ ln.squid_rate = ln.squid_base
    /\ ln.verdict = "Normal"

(* C6, as stated: no failure of a rate read, probe or baseline, escapes:   *)
(* no test function is left by an exception.                               *)
C6_NoReadFailureEscapes == \A t \in Tests : pc[t] # -1

(* C8, as stated: 1 wei probed at 5,162,271 * 10**18 against the baseline  *)
(* 12.6445 * 10**18 is DustInflated with an inflation factor of 408,160    *)
(* (to the ten the figure is given to) and voting power 5,162,271.         *)
C8_Factor408160 ==
  \A ln \in LinesAt("dust_squill") :
    ~ProbeReverted(ln) /\ "rate" \in DOMAIN ln
      /\ ln.rate = InflatedRate /\ ln.base = StdRate
      => /\ ln.verdict = "DustInflated"
         /\ Cmp(FloorF(ln.factor), N(408155)) >= 0
         /\ Cmp(FloorF(ln.factor), N(408165)) < 0
         /\ ln.power = N(5162271)

(* C8, amended: 1 wei probed at 5,162,271 * 10**18 against the baseline    *)
(* 12.6445 * 10**18 is DustInflated with an inflation factor of 408,262    *)
(* (5162271 / 12.6445 = 408262.17...) and voting power 5,162,271, the      *)
(* power the demonstration prints for 1 wei as well.                       *)
C8_Factor408262 ==
  /\ \A ln \in LinesAt("dust_squill") :
       ~ProbeReverted(ln) /\ "rate" \in DOMAIN ln
         /\ ln.rate = InflatedRate /\ ln.base = StdRate
         => /\ ln.verdict = "DustInflated"
            /\ FloorF(ln.factor) = N(408262)
            /\ ln.power = N(5162271)
  /\ \A ln \in LinesAt("demo_dust") :
       ln.q = <<1>> => ln.verdict = "VULNERABLE" /\ ln.power = N(5162271)

C8_Witness ==
  \E ln \in LinesAt("dust_squill") :
    /\ ln.verdict = "DustInflated"
    /\ ln.rate = InflatedRate
    /\ ln.base = StdRate
    /\ ln.power = N(5162271)

(* C9: under every order and interleaving of the tests, each line printed  *)
(* is the line its probe gives when made alone from a fresh frame, and two *)
(* lines of different tests about the same quantity report the same SQUILL *)
(* rate: nothing a test leaves behind reaches another probe.               *)
C9_ProbesIndependent ==
  /\ \A ln \in AllLines : ln = Alone(ln)
  /\ \A ln1, ln2 \in AllLines :
       /\ ln1.site \in SquillSites
       /\ ln2.site \in SquillSites
       /\ ln1.q = ln2.q
       /\ "rate" \in DOMAIN ln1
       /\ "rate" \in DOMAIN ln2
       => ln1.rate = ln2.rate

C9_Witness ==
  /\ pc["bypass"] > 0
  /\ pc["edge"] > 0
  /\ \E ln1 \in LinesAt("bypass"), ln2 \in LinesAt("edge_squill") :
       /\ ln1.q = N(9999999)
       /\ ln2.q = N(9999999)
       /\ "rate" \in DOMAIN ln1
       /\ "rate" \in DOMAIN ln2
       /\ ln1.rate = InflatedRate
       /\ ln2.rate = InflatedRate

(* C10, as stated: a probe is DustInflated if and only if it did not       *)
(* revert, its quantity is positive and below dust_threshold, and its rate *)
(* over the baseline is strictly greater than 100.                         *)
C10_DustInflatedIff ==
  \A ln \in AllLines :
    ln.site \in {"dust_squill", "bypass"}
      /\ Baseline.ok /\ Baseline.v # <<>>
      => (ln.verdict = "DustInflated"
            <=> /\ ~ProbeReverted(ln)
                /\ ln.q # <<>>
                /\ BelowDust(ln.q)
                /\ FCmp(TrueDiv(ln.rate, Baseline.v), AlarmFactor) > 0)

(* C10, amended: DustInflated is decided for the 1-wei probe of the dust   *)
(* test only: that probe is DustInflated if and only if it did not revert, *)
(* the baseline is not 0 and the double probe / baseline is strictly       *)
(* greater than 100.0 (a factor of exactly 100 is not flagged); its        *)
(* evidence is that factor and the voting power 1 * probe // 10**18.  No   *)
(* other dust quantity is tested for inflation.                            *)
C10_DustInflatedOneWei ==
  /\ \A ln \in LinesAt("dust_squill") :
       /\ ln.verdict = "DustInflated"
            <=> /\ squill_lp_equivalent(<<1>>).ok
                /\ Baseline.v # <<>>
                /\ FCmp(TrueDiv(squill_lp_equivalent(<<1>>).v, Baseline.v),
                        AlarmFactor) > 0
       /\ ln.verdict = "DustInflated"
            => /\ ln.factor = TrueDiv(squill_lp_equivalent(<<1>>).v, Baseline.v)
               /\ ln.power = FloorDiv(squill_lp_equivalent(<<1>>).v, WAD)
       /\ "rate" \in DOMAIN ln /\ ln.base # <<>>
            /\ ln.rate = Mul(ln.base, N(100))
            => ln.verdict = "Normal"
  /\ \A ln \in AllLines : ln.site # "dust_squill" => ln.verdict # "DustInflated"

C10_Witness ==
  \E ln \in LinesAt("dust_squill") :
    /\ ln.verdict = "DustInflated"
    /\ ln.base = StdRate
    /\ ln.rate = Mul(ln.base, N(101))
    /\ ln.power = N(1277)

----------------------------------------------------------------------------
\* |actual - expected| / expected * 100 > 0.01, on the doubles Python computes
AlarmOn(actual, expected) ==
  /\ expected # <<>>
  /\ FCmp(FMulInt(TrueDiv(AbsDiff(actual, expected), expected), N(100)),
          LossAlarmPct) > 0

\* the same comparison for quantity q probed at rate against baseline base
PoolAlarm(q, rate, base) ==
  AlarmOn(FloorDiv(Mul(q, rate), WAD), FloorDiv(Mul(q, base), WAD))

\* |actual - expected| * 10000 > expected: the loss exceeds 0.01 % exactly
ExactExcess(actual, expected) ==
  Cmp(Mul(AbsDiff(actual, expected), N(10000)), expected) > 0

(* C11: a probe of the precision loop that did not revert is PrecisionLoss *)
(* exactly when, for one of its two pools, expected > 0 and                *)
(* |actual - expected| / expected * 100 (as Python computes it) is         *)
(* strictly greater than 0.01, a loss of exactly 0.01 % not being flagged; *)
(* with expected == 0 the loss of that pool is 0 however large actual is,  *)
(* and a flagged loss exceeds 0.01 % in exact arithmetic too.              *)
C11_PrecisionLossIff ==
  \A ln \in LinesAt("precision") :
    ~ProbeReverted(ln)
      => /\ ln.verdict = "PrecisionLoss"
              <=> \/ PoolAlarm(ln.q, squid_lp_equivalent(ln.q).v,
                               squid_lp_equivalent(WAD).v)
                  \/ PoolAlarm(ln.q, squill_lp_equivalent(ln.q).v,
                               squill_lp_equivalent(WAD).v)
         /\ ln.expected = <<>> => ln.loss_pct = FZero
         /\ ln.expected_squid = <<>> => ln.squid_loss_pct = FZero
         /\ ln.expected = <<>> /\ ln.expected_squid = <<>>
              => ln.verdict = "Normal"
         /\ ln.verdict = "PrecisionLoss"
              => \/ ExactExcess(ln.power, ln.expected)
                 \/ ExactExcess(ln.squid_power, ln.expected_squid)
         /\ ln.verdict \in {"PrecisionLoss", "Normal"}

C11_Witness ==
  \E ln \in LinesAt("precision") :
    /\ ~ProbeReverted(ln)
    /\ ln.verdict = "PrecisionLoss"
    /\ ln.expected # <<>>
    /\ ln.squid_loss_pct = FZero
    /\ ExactExcess(ln.power, ln.expected)

----------------------------------------------------------------------------
\* the verdict a probe gets when the checks are made in the order dust
\* inflation, precision loss, Normal
InOrder(q, rate, base) ==
  IF BelowDust(q) /\ Inflated(TrueDiv(rate, base)) THEN "DustInflated"
  ELSE IF PoolAlarm(q, rate, base) THEN "PrecisionLoss"
  ELSE "Normal"

----------------------------------------------------------------------------
(* C13: when main returns, its exit status is 1 if and only if one of the  *)
(* four recorded results carries the severity CRITICAL, and 0 otherwise;   *)
(* that is the case exactly when demonstrate_dust_attack_poc found the     *)
(* vulnerability, which it does exactly when its dust list holds the       *)
(* amount 1; the three other results are always PASS, so 3 tests are       *)
(* counted as passed whenever the dust attack is CRITICAL.                 *)
C13_ExitStatus ==
  pc["main"] = 6
    => /\ Len(loc["main"].poc_results) = 4
       /\ loc["main"].exit
            = (IF \E i \in 1..4 : loc["main"].poc_results[i].severity = "CRITICAL"
               THEN 1 ELSE 0)
       /\ (\E i \in 1..4 : loc["main"].poc_results[i].severity = "CRITICAL")
            <=> loc["main"].poc_results[1].severity = "CRITICAL"
       /\ loc["main"].poc_results[1].severity = "CRITICAL"
            <=> loc["main"].vulnerability_found
       /\ loc["main"].vulnerability_found
            <=> \E i \in DOMAIN dust_amounts : dust_amounts[i] = <<1>>
       /\ loc["main"].vulnerability_found
            <=> \E ln \in LinesAt("demo_dust") : ln.verdict = "VULNERABLE"
       /\ \A i \in 2..4 : loc["main"].poc_results[i].severity = "PASS"
       /\ loc["main"].poc_results[1].severity = "CRITICAL"
            => loc["main"].passed = 3

C13_Witness ==
  /\ pc["main"] = 6
  /\ loc["main"].exit = 1
  /\ loc["main"].vulnerability_found
  /\ loc["main"].passed = 3

----------------------------------------------------------------------------
\* the tests that are loops over a list of quantities
Loops == {"bypass", "precision", "edge"}

LoopList(t) ==
  CASE t = "bypass"    -> bypass_amounts
    [] t = "precision" -> precision_amounts
    [] t = "edge"      -> edge_cases

\* the lines one iteration prints
LinesPer(t) == IF t = "edge" THEN 2 ELSE 1

\* in a loop at position pc, exactly the quantities before pc have been
\* probed, once each and in list order, each reported for itself
LoopOrder(t) ==
  /\ pc[t] \in 0..(Len(LoopList(t)) + 1)
  /\ pc[t] >= 1 => Len(out[t]) = LinesPer(t) * (pc[t] - 1)
  /\ \A i \in DOMAIN out[t] :
       /\ out[t][i].q = LoopList(t)[(i - 1) \div LinesPer(t) + 1]
       /\ out[t][i].verdict = "Reverted" <=> ProbeReverted(out[t][i])
       /\ "rate" \in DOMAIN out[t][i]
            => out[t][i].rate
                 = (IF out[t][i].site = "edge_squid"
                    THEN squid_lp_equivalent(out[t][i].q).v
                    ELSE squill_lp_equivalent(out[t][i].q).v)

\* a step of loop t: from a quantity of the list the only move is on to the
\* next one, printing after the lines already there; past the last quantity
\* the only move is the return
LoopStep(t) ==
  /\ pc[t] \in DOMAIN LoopList(t) => pc'[t] \in {pc[t], pc[t] + 1}
  /\ pc[t] = Len(LoopList(t)) + 1 => pc'[t] \in {pc[t], 0}
  /\ pc[t] >= 1 /\ pc'[t] = pc[t] => out'[t] = out[t]
  /\ pc[t] >= 1 /\ pc'[t] = pc[t] + 1
       => /\ Len(out'[t]) = Len(out[t]) + LinesPer(t)
          /\ SubSeq(out'[t], 1, Len(out[t])) = out[t]

----------------------------------------------------------------------------
\* both SQUILL rate reads of the dust phase succeed and 1 wei yields more
\* than 1000 of voting power
DustReadsViable ==
  /\ squill_lp_equivalent(<<1>>).ok
  /\ squill_lp_equivalent(WAD).ok
  /\ Cmp(FloorDiv(squill_lp_equivalent(<<1>>).v, WAD), N(1000)) > 0

\* the threat level is CRITICAL with both findings, HIGH with one, LOW with
\* none, and the summary holds the voting power exactly when attack_viable
LevelOf(ln) ==
  /\ ln.verdict = "CRITICAL" <=> ln.attack_viable /\ ln.oracle_vulnerable
  /\ ln.verdict = "HIGH" <=> ln.attack_viable # ln.oracle_vulnerable
  /\ ln.verdict = "LOW" <=> ~ln.attack_viable /\ ~ln.oracle_vulnerable
  /\ ln.oracle_vulnerable <=> squid_price.ok /\ eth_price.ok
  /\ "power" \in DOMAIN ln <=> ln.attack_viable

(* C15, as stated: the threat level is CRITICAL, HIGH or LOW as both, one  *)
(* or none of the two findings hold; the dust attack is viable exactly     *)
(* when both SQUILL rate reads succeed and floor(1 * dustRate / 10**18) is *)
(* above 1000; the oracle is vulnerable exactly when both price reads      *)
(* succeed; the summary reads the voting power only when the attack is     *)
(* viable and never fails on it.                                           *)
C15_ThreatLevel ==
  /\ pc["comprehensive"] # -1
  /\ \A ln \in LinesAt("comp_summary") :
       LevelOf(ln) /\ (ln.attack_viable <=> DustReadsViable)

(* C15, amended: as stated, except that the dust attack is viable exactly  *)
(* when both SQUILL rate reads succeed, the 10**18 rate is not 0 (with a   *)
(* rate of 0 the division of the inflation factor raises and the attack is *)
(* reported as blocked) and floor(1 * dustRate / 10**18) is above 1000.    *)
C15_ThreatLevelNonzeroBase ==
  /\ pc["comprehensive"] # -1
  /\ \A ln \in LinesAt("comp_summary") :
       /\ LevelOf(ln)
       /\ ln.attack_viable
            <=> DustReadsViable /\ squill_lp_equivalent(WAD).v # <<>>
       /\ ln.attack_viable
            => ln.power = FloorDiv(squill_lp_equivalent(<<1>>).v, WAD)

C15_Witness ==
  \E ln \in LinesAt("comp_summary") :
    /\ ln.verdict = "HIGH"
    /\ ln.attack_viable
    /\ ~ln.oracle_vulnerable
    /\ ln.power = N(5162271)

----------------------------------------------------------------------------
\* the 10**18 SQUILL rate is read and is 0
ZeroBaseline == Baseline.ok /\ Baseline.v = <<>>

(* C16: when the baseline SQUILL rate is 0 the division of the inflation   *)
(* factor fails and the 1-wei probe is reported exactly as a revert is: the *)
(* dust test prints the line of a reverted probe and the comprehensive     *)
(* test reports the attack as blocked and not viable; the probe is never   *)
(* reported as a confirmed vulnerability.                                  *)
C16_ZeroBaselineAsRevert ==
  ZeroBaseline =>
    /\ \A ln \in LinesAt("dust_squill") : ln = Reverted("dust_squill", <<1>>)
    /\ \A ln \in LinesAt("comp_dust") :
         ln = [site |-> "comp_dust", q |-> <<1>>, verdict |-> "Blocked"]
    /\ pc["comprehensive"] > 1 => ~loc["comprehensive"].attack_viable
    /\ \A ln \in LinesAt("comp_summary") :
         ~ln.attack_viable /\ ln.verdict # "CRITICAL"

C16_Witness ==
  /\ ZeroBaseline
  /\ squill_lp_equivalent(<<1>>) = Ok(InflatedRate)
  /\ \E ln \in LinesAt("dust_squill") : ln.verdict = "Reverted"

====
